---- MODULE Spec2Model ----
(***************************************************************************)
(* network-analyzer (main.go): main opens the archive file, launches one   *)
(* goroutine per task, waits for all of them on a sync.WaitGroup, compiles *)
(* the stored errors into errors.txt, writes every stored file into the    *)
(* zip archive and closes it.                                              *)
(*                                                                         *)
(* Process 0 is main; processes 1..NumTasks are the goroutines of the      *)
(* `for _, task := range tasks` loop, goroutine g being the g-th launched. *)
(* Byte slices are sequences of chunks (strings); the archive file on disk *)
(* is a sequence of units (local header, entry data, central directory,    *)
(* or a unit left over from a file that was at the path before the run).   *)
(***************************************************************************)
EXTENDS Integers, Sequences, FiniteSets, TLC

\* Number of createStoreCommand probes taken from the head of main's task
\* list (the list has 17 of them, followed by a.addIP and a.addResolvConf).
NumCmd == 1

\* const host (main.go:21)
host == "geoip.maxmind.com"

\* The names main's createStoreCommand probes store under, in list order.
CmdNames ==
    << host \o "-curl-ipv4.txt",
       host \o "-curl-ipv6.txt",
       host \o "-dig.txt",
       host \o "-dig-google.txt",
       host \o "-dig-google-trace.txt",
       host \o "-dig-cloudflare-josh.txt",
       host \o "-dig-cloudflare-kim.txt",
       host \o "-dig-cloudflare-josh-rfc4892.txt",
       host \o "-dig-cloudflare-kim-rfc4892.txt",
       host \o "-dig-cloudflare.txt",
       "ip-addr.txt",
       "ip-route.txt",
       host \o "-mtr-ipv4.json",
       host \o "-mtr-ipv6.json",
       host \o "-ping-ipv4.txt",
       host \o "-ping-ipv6.txt",
       host \o "-tracepath.txt" >>

\* tasks := []func(){ createStoreCommand(...) x NumCmd, a.addIP, a.addResolvConf }
tasks ==
    [j \in 1..(NumCmd + 2) |->
        IF j <= NumCmd THEN [kind |-> "command", f |-> CmdNames[j]]
        ELSE IF j = NumCmd + 1 THEN [kind |-> "addIP", f |-> "ip-address.txt"]
        ELSE [kind |-> "addResolvConf", f |-> "resolv.conf"]]

NumTasks == Len(tasks)
Main     == 0
Procs    == 0..NumTasks
Workers  == 1..NumTasks

(***************************************************************************)
(* Values coming from the environment.                                     *)
(***************************************************************************)
NoErr == [msg |-> "", cause |-> "nil"]

\* cmd.CombinedOutput(): the captured bytes and the error.  A program that
\* cannot be started yields no bytes; a program that ran may have printed
\* something or nothing, whatever its exit status.
CombinedOutputResults ==
    { [output |-> <<"out">>, err |-> "nil"],
      [output |-> <<"partial out">>, err |-> "exit status 1"],
      [output |-> <<>>, err |-> "executable file not found in $PATH"] }

\* http.Get followed by ioutil.ReadAll(resp.Body)
GetResults ==
    { [getErr |-> "dial tcp: no route to host", readErr |-> "nil", body |-> <<>>],
      [getErr |-> "nil", readErr |-> "unexpected EOF", body |-> <<"part">>],
      [getErr |-> "nil", readErr |-> "nil", body |-> <<"192.0.2.1">>] }

\* ioutil.ReadFile("/etc/resolv.conf")
ReadFileResults ==
    { [contents |-> <<>>, err |-> "open /etc/resolv.conf: no such file or directory"],
      [contents |-> <<"nameserver 192.0.2.53">>, err |-> "nil"] }

\* What may be at the archive path before the run: nothing, a short file, or
\* a file longer than any archive the run can write.
OldUnit == [k |-> "old"]
PriorFiles ==
    { <<>>, <<OldUnit, OldUnit>>, [j \in 1..(2 * NumTasks + 6) |-> OldUnit] }

VARIABLES
    pc,            \* pc[p]: position of process p in its code
    a,             \* main's analyzer pointer: "nil" or "analyzer"
    launched,      \* number of iterations of main's launch loop done
    gtask,         \* gtask[g]: index in tasks of the closure goroutine g got
    wg,            \* sync.WaitGroup counter
    errorsMutex,   \* set of processes inside errorsMutex
    zipFilesMutex, \* set of processes inside zipFilesMutex
    errors,        \* a.errors
    zipFiles,      \* a.zipFiles
    local,         \* local[p]: locals of process p: the result of its external
                   \* operation, the error and record it stores, the slice it appends to
    calls,         \* calls[j]: times tasks[j] was invoked
    rets,          \* rets[j]: times tasks[j] returned
    disk,          \* contents of the file at zipFileName
    woff,          \* write offset of the open file a.zipFile
    fileOpen,      \* a.zipFile is open
    zipClosed,     \* a.zipWriter.Close() has written the directory
    wfIdx,         \* writeFiles: index of the record being written
    ret,           \* ret[fn]: what addErrors / writeFiles / close returned
    logged,        \* errors main has passed to log.Println
    aeErrors,      \* a.errors and a.zipFiles as they were when addErrors began
    wfFiles,       \* a.zipFiles as it was when writeFiles began
    storeCalls     \* every storeFile / storeError call begun: [proc, fn, arg]

vars == << pc, a, launched, gtask, wg, errorsMutex, zipFilesMutex, errors,
           zipFiles, local, calls, rets, disk, woff, fileOpen, zipClosed,
           wfIdx, ret, logged, aeErrors, wfFiles, storeCalls >>

NoRec    == [name |-> "", contents |-> <<>>]
NoLocal  == [res |-> <<>>, err |-> NoErr, seen |-> <<>>, rec |-> NoRec]
NotCalled == "not called"

\* A nil pointer dereference (a method of a nil *analyzer touching a field)
\* is an unrecovered panic: the runtime ends the process, goroutines and all.
Panic == [p \in Procs |-> "panic"]
Panicked == pc[Main] = "panic"

Init ==
    /\ pc = [p \in Procs |-> IF p = Main THEN "newAnalyzer" ELSE "unborn"]
    /\ a = "nil"
    /\ launched = 0
    /\ gtask = [g \in Workers |-> 0]
    /\ wg = 0
    /\ errorsMutex = {}
    /\ zipFilesMutex = {}
    /\ errors = <<>>
    /\ zipFiles = <<>>
    /\ local = [p \in Procs |-> NoLocal]
    /\ calls = [j \in Workers |-> 0]
    /\ rets = [j \in Workers |-> 0]
    /\ disk \in PriorFiles
    /\ woff = 0
    /\ fileOpen = FALSE
    /\ zipClosed = FALSE
    /\ wfIdx = 0
    /\ ret = [fn \in {"addErrors", "writeFiles", "close"} |-> NotCalled]
    /\ logged = <<>>
    /\ aeErrors = << <<>>, <<>> >>
    /\ wfFiles = <<>>
    /\ storeCalls = {}

(***************************************************************************)
(* Helpers                                                                 *)
(***************************************************************************)
\* errors.Wrap / errors.Wrapf: the message laid over the cause.
Wrap(cause, msg) == [msg |-> msg, cause |-> cause]

\* sync.Mutex.Lock proceeds only when nobody holds the mutex.
MutexFreeAlways(m) == TRUE
MutexFree(m) == m = {}

\* A write of `units` at offset `off` of a file opened without O_APPEND and
\* without O_TRUNC: it replaces what is there and extends the file past its
\* end; what lies after the written range stays.
WriteAt(file, off, units) ==
    LET end == off + Len(units)
        n   == IF end > Len(file) THEN end ELSE Len(file)
    IN  [j \in 1..n |-> IF j > off /\ j <= end THEN units[j - off] ELSE file[j]]

\* The argument `go func(task func()){...}(task)` hands to the g-th goroutine.
TaskArgLast(g) == NumTasks
TaskArg(g) == g

\* wg.Wait() returns when the counter is zero.
WaitReadyOneLeft == wg <= 1
WaitReadyNoWait == TRUE
WaitReady == wg = 0

SetLocal(p, field, v) == [local EXCEPT ![p] = [local[p] EXCEPT ![field] = v]]

MainIdle ==
    UNCHANGED << launched, disk, woff, fileOpen, zipClosed, wfIdx, ret, logged,
                 aeErrors, wfFiles, a >>

(***************************************************************************)
(* main, up to the barrier (main.go:43-94)                                 *)
(***************************************************************************)
\* newAnalyzer: os.OpenFile(zipFileName, O_WRONLY|O_CREATE, 0600).  On
\* success the file keeps whatever it held and the offset is 0; on failure
\* main logs the error and goes on with a nil analyzer.
NewAnalyzer ==
    /\ pc[Main] = "newAnalyzer"
    /\ \E ok \in BOOLEAN :
        IF ok
        THEN /\ a' = "analyzer"
             /\ fileOpen' = TRUE
             /\ woff' = 0
             /\ UNCHANGED logged
        ELSE /\ a' = "nil"
             /\ logged' = Append(logged, "error opening mm-network-analysis.zip")
             /\ UNCHANGED << fileOpen, woff >>
    /\ pc' = [pc EXCEPT ![Main] = "launch"]
    /\ UNCHANGED << launched, gtask, wg, errorsMutex, zipFilesMutex, errors,
                    zipFiles, local, calls, rets, disk, zipClosed, wfIdx, ret,
                    aeErrors, wfFiles, storeCalls >>

\* One iteration of `for _, task := range tasks { wg.Add(1); go func... }`.
Launch ==
    /\ pc[Main] = "launch"
    /\ launched < NumTasks
    /\ LET g == launched + 1 IN
        /\ wg' = wg + 1
        /\ gtask' = [gtask EXCEPT ![g] = TaskArg(g)]
        /\ launched' = g
        /\ pc' = [pc EXCEPT ![g] = "task",
                            ![Main] = IF g = NumTasks THEN "wait" ELSE "launch"]
    /\ UNCHANGED << a, errorsMutex, zipFilesMutex, errors, zipFiles, local,
                    calls, rets, disk, woff, fileOpen, zipClosed, wfIdx, ret,
                    logged, aeErrors, wfFiles, storeCalls >>

\* wg.Wait()
Wait ==
    /\ pc[Main] = "wait"
    /\ WaitReady
    /\ pc' = [pc EXCEPT ![Main] = "addErrors"]
    /\ UNCHANGED << a, launched, gtask, wg, errorsMutex, zipFilesMutex, errors,
                    zipFiles, local, calls, rets, disk, woff, fileOpen,
                    zipClosed, wfIdx, ret, logged, aeErrors, wfFiles,
                    storeCalls >>

(***************************************************************************)
(* The probes (main.go:160-199)                                            *)
(***************************************************************************)
\* What a probe does with the result of its external operation: the store
\* call it makes first, with the error and the record it passes.
CommandPlanOutputOnSuccessOnly(f, r) ==
    [err |-> IF r.err = "nil" THEN NoErr
             ELSE Wrap(r.err, "error getting data for " \o f),
     file |-> r.err = "nil",
     rec |-> [name |-> f, contents |-> r.output]]
CommandPlanDropsEmpty(f, r) ==
    [err |-> IF r.err = "nil" THEN NoErr
             ELSE Wrap(r.err, "error getting data for " \o f),
     file |-> r.output # <<>>,
     rec |-> [name |-> f, contents |-> r.output]]
CommandPlan(f, r) ==
    [err |-> IF r.err = "nil" THEN NoErr
             ELSE Wrap(r.err, "error getting data for " \o f),
     file |-> TRUE,
     rec |-> [name |-> f, contents |-> r.output]]

AddIPPlanIgnoresReadErr(r) ==
    [err |-> IF r.getErr # "nil" THEN Wrap(r.getErr, "error getting IP address")
             ELSE NoErr,
     file |-> r.getErr = "nil",
     rec |-> [name |-> "ip-address.txt", contents |-> r.body]]
AddIPPlan(r) ==
    [err |-> IF r.getErr # "nil" THEN Wrap(r.getErr, "error getting IP address")
             ELSE IF r.readErr # "nil"
                  THEN Wrap(r.readErr, "error reading IP address body")
                  ELSE NoErr,
     file |-> r.getErr = "nil" /\ r.readErr = "nil",
     rec |-> [name |-> "ip-address.txt", contents |-> r.body]]

AddResolvConfPlanNoReturn(r) ==
    [err |-> IF r.err # "nil" THEN Wrap(r.err, "error reading resolv.conf") ELSE NoErr,
     file |-> TRUE,
     rec |-> [name |-> "resolv.conf", contents |-> r.contents]]
AddResolvConfPlan(r) ==
    [err |-> IF r.err # "nil" THEN Wrap(r.err, "error reading resolv.conf") ELSE NoErr,
     file |-> r.err = "nil",
     rec |-> [name |-> "resolv.conf", contents |-> r.contents]]

\* The probe has its plan: it calls storeError if there is an error, else
\* storeFile (a probe always has one of the two to call).
Begin(g, r, plan) ==
    /\ calls' = [calls EXCEPT ![gtask[g]] = @ + 1]
    /\ local' = [local EXCEPT ![g] =
                    [res |-> r, err |-> plan.err, seen |-> <<>>,
                     rec |-> IF plan.file THEN plan.rec ELSE NoRec]]
    /\ pc' = [pc EXCEPT ![g] = IF plan.err # NoErr THEN "storeError" ELSE "storeFile"]
    /\ UNCHANGED << gtask, wg, errorsMutex, zipFilesMutex, errors, zipFiles,
                    rets, storeCalls >>
    /\ MainIdle

\* The closure of createStoreCommand: exec.Command(...).CombinedOutput()
RunCommand(g) ==
    /\ pc[g] = "task"
    /\ tasks[gtask[g]].kind = "command"
    /\ \E r \in CombinedOutputResults :
        Begin(g, r, CommandPlan(tasks[gtask[g]].f, r))

\* addIP: http.Get and ioutil.ReadAll
RunAddIP(g) ==
    /\ pc[g] = "task"
    /\ tasks[gtask[g]].kind = "addIP"
    /\ \E r \in GetResults : Begin(g, r, AddIPPlan(r))

\* addResolvConf: ioutil.ReadFile
RunAddResolvConf(g) ==
    /\ pc[g] = "task"
    /\ tasks[gtask[g]].kind = "addResolvConf"
    /\ \E r \in ReadFileResults : Begin(g, r, AddResolvConfPlan(r))

(***************************************************************************)
(* The Result Store (main.go:136-146).  Each call is three steps: Lock     *)
(* (which also loads the slice header append will extend), the append, and *)
(* Unlock.  Calling either method on a nil analyzer faults in Lock.        *)
(***************************************************************************)
\* Where a process goes when its storeError call returns: a command probe
\* goes on to storeFile, addIP and addResolvConf return.
AfterStoreErrorReturns(p) == "wgDone"
AfterStoreError(p) == IF local[p].rec # NoRec THEN "storeFile" ELSE "wgDone"

\* Where a process goes when its storeFile call returns: a probe returns to
\* the goroutine wrapper, main returns to addErrors.
AfterStoreFile(p) == IF p = Main THEN "addErrorsReturn" ELSE "wgDone"

\* The task of goroutine p returns when p moves to the wrapper's wg.Done().
Returns(p, to) ==
    rets' = IF p # Main /\ to = "wgDone" THEN [rets EXCEPT ![gtask[p]] = @ + 1] ELSE rets

StoreErrorLock(p) ==
    /\ pc[p] = "storeError"
    /\ IF a = "nil"
       THEN /\ pc' = Panic
            /\ UNCHANGED << errorsMutex, local, storeCalls >>
       ELSE /\ MutexFree(errorsMutex)
            /\ errorsMutex' = errorsMutex \cup {p}
            /\ local' = SetLocal(p, "seen", errors)
            /\ storeCalls' = storeCalls \cup
                    {[proc |-> p, fn |-> "storeError", arg |-> local[p].err]}
            /\ pc' = [pc EXCEPT ![p] = "storeErrorAppend"]
    /\ UNCHANGED << gtask, wg, zipFilesMutex, errors, zipFiles, calls, rets >>
    /\ MainIdle

StoreErrorAppend(p) ==
    /\ pc[p] = "storeErrorAppend"
    /\ errors' = Append(local[p].seen, local[p].err)
    /\ pc' = [pc EXCEPT ![p] = "storeErrorUnlock"]
    /\ UNCHANGED << gtask, wg, errorsMutex, zipFilesMutex, zipFiles, local,
                    calls, rets, storeCalls >>
    /\ MainIdle

StoreErrorUnlock(p) ==
    /\ pc[p] = "storeErrorUnlock"
    /\ errorsMutex' = errorsMutex \ {p}
    /\ pc' = [pc EXCEPT ![p] = AfterStoreError(p)]
    /\ Returns(p, AfterStoreError(p))
    /\ UNCHANGED << gtask, wg, zipFilesMutex, errors, zipFiles, local, calls,
                    storeCalls >>
    /\ MainIdle

StoreFileLock(p) ==
    /\ pc[p] = "storeFile"
    /\ IF a = "nil"
       THEN /\ pc' = Panic
            /\ UNCHANGED << zipFilesMutex, local, storeCalls >>
       ELSE /\ MutexFree(zipFilesMutex)
            /\ zipFilesMutex' = zipFilesMutex \cup {p}
            /\ local' = SetLocal(p, "seen", zipFiles)
            /\ storeCalls' = storeCalls \cup
                    {[proc |-> p, fn |-> "storeFile", arg |-> local[p].rec]}
            /\ pc' = [pc EXCEPT ![p] = "storeFileAppend"]
    /\ UNCHANGED << gtask, wg, errorsMutex, errors, zipFiles, calls, rets >>
    /\ MainIdle

StoreFileAppend(p) ==
    /\ pc[p] = "storeFileAppend"
    /\ zipFiles' = Append(local[p].seen, local[p].rec)
    /\ pc' = [pc EXCEPT ![p] = "storeFileUnlock"]
    /\ UNCHANGED << gtask, wg, errorsMutex, zipFilesMutex, errors, local,
                    calls, rets, storeCalls >>
    /\ MainIdle

StoreFileUnlockForgets(p) ==
    /\ pc[p] = "storeFileUnlock"
    /\ pc' = [pc EXCEPT ![p] = AfterStoreFile(p)]
    /\ Returns(p, AfterStoreFile(p))
    /\ UNCHANGED << gtask, wg, errorsMutex, zipFilesMutex, errors, zipFiles,
                    local, calls, storeCalls >>
    /\ MainIdle

StoreFileUnlock(p) ==
    /\ pc[p] = "storeFileUnlock"
    /\ zipFilesMutex' = zipFilesMutex \ {p}
    /\ pc' = [pc EXCEPT ![p] = AfterStoreFile(p)]
    /\ Returns(p, AfterStoreFile(p))
    /\ UNCHANGED << gtask, wg, errorsMutex, errors, zipFiles, local, calls,
                    storeCalls >>
    /\ MainIdle

WgDoneForgets(g) ==
    /\ pc[g] = "wgDone"
    /\ pc' = [pc EXCEPT ![g] = "done"]
    /\ UNCHANGED << gtask, wg, errorsMutex, zipFilesMutex, errors, zipFiles,
                    local, calls, rets, storeCalls >>
    /\ MainIdle

\* The goroutine wrapper's wg.Done() after task() returned.
WgDone(g) ==
    /\ pc[g] = "wgDone"
    /\ wg' = wg - 1
    /\ pc' = [pc EXCEPT ![g] = "done"]
    /\ UNCHANGED << gtask, errorsMutex, zipFilesMutex, errors, zipFiles, local,
                    calls, rets, storeCalls >>
    /\ MainIdle

(***************************************************************************)
(* addErrors (main.go:201-216)                                             *)
(***************************************************************************)
Delim == "\n\n----------\n\n"

\* fmt.Fprintf(buf, "%+v\n\n----------\n\n", storedErr): pkg/errors prints
\* the cause, the wrapping message and the stack trace, then the delimiter.
FprintfNoDelim(buf, storedErr) ==
    buf \o <<storedErr.cause, storedErr.msg, "stack trace">>
Fprintf(buf, storedErr) ==
    buf \o <<storedErr.cause, storedErr.msg, "stack trace", Delim>>

\* for _, storedErr := range a.errors { Fprintf(buf, ...) }, from the i-th
\* error on.  Writing to a bytes.Buffer returns no error.
RECURSIVE RangeErrors(_, _, _)
RangeErrors(errs, i, buf) ==
    IF i > Len(errs) THEN buf
    ELSE RangeErrors(errs, i + 1, Fprintf(buf, errs[i]))

\* if len(a.errors) == 0 { return nil }
NothingToReportNever(errs) == FALSE
NothingToReport(errs) == Len(errs) = 0

NotMain ==
    UNCHANGED << gtask, wg, calls, rets, launched >>

\* a.errorsMutex.Lock(); defer a.errorsMutex.Unlock()
AddErrorsLock ==
    /\ pc[Main] = "addErrors"
    /\ IF a = "nil"
       THEN /\ pc' = Panic
            /\ UNCHANGED << errorsMutex, aeErrors >>
       ELSE /\ MutexFree(errorsMutex)
            /\ errorsMutex' = errorsMutex \cup {Main}
            /\ aeErrors' = << errors, zipFiles >>
            /\ pc' = [pc EXCEPT ![Main] = "addErrorsBody"]
    /\ UNCHANGED << a, zipFilesMutex, errors, zipFiles, local, disk, woff,
                    fileOpen, zipClosed, wfIdx, ret, logged, wfFiles, storeCalls >>
    /\ NotMain

\* The body up to the storeFile call, or the early return (which runs the
\* deferred Unlock and takes main to writeFiles).
AddErrorsBody ==
    /\ pc[Main] = "addErrorsBody"
    /\ IF NothingToReport(errors)
       THEN /\ errorsMutex' = errorsMutex \ {Main}
            /\ ret' = [ret EXCEPT !["addErrors"] = "nil"]
            /\ pc' = [pc EXCEPT ![Main] = "writeFiles"]
            /\ UNCHANGED local
       ELSE /\ local' = SetLocal(Main, "rec",
                    [name |-> "errors.txt", contents |-> RangeErrors(errors, 1, <<>>)])
            /\ pc' = [pc EXCEPT ![Main] = "storeFile"]
            /\ UNCHANGED << errorsMutex, ret >>
    /\ UNCHANGED << a, zipFilesMutex, errors, zipFiles, disk, woff, fileOpen,
                    zipClosed, wfIdx, logged, aeErrors, wfFiles, storeCalls >>
    /\ NotMain

AddErrorsReturnClears ==
    /\ pc[Main] = "addErrorsReturn"
    /\ errorsMutex' = errorsMutex \ {Main}
    /\ errors' = <<>>
    /\ ret' = [ret EXCEPT !["addErrors"] = "nil"]
    /\ pc' = [pc EXCEPT ![Main] = "writeFiles"]
    /\ UNCHANGED << a, zipFilesMutex, zipFiles, local, disk, woff, fileOpen,
                    zipClosed, wfIdx, logged, aeErrors, wfFiles, storeCalls >>
    /\ NotMain

\* return nil after storeFile, running the deferred Unlock.
AddErrorsReturn ==
    /\ pc[Main] = "addErrorsReturn"
    /\ errorsMutex' = errorsMutex \ {Main}
    /\ ret' = [ret EXCEPT !["addErrors"] = "nil"]
    /\ pc' = [pc EXCEPT ![Main] = "writeFiles"]
    /\ UNCHANGED << a, zipFilesMutex, errors, zipFiles, local, disk, woff,
                    fileOpen, zipClosed, wfIdx, logged, aeErrors, wfFiles,
                    storeCalls >>
    /\ NotMain

(***************************************************************************)
(* writeFiles and writeFile (main.go:148-158, 218-228)                     *)
(***************************************************************************)
\* What zipWriter.Create(name) and f.Write(contents) put in the file.  The
\* zip writer buffers its output and compresses the data; the units stand for
\* the bytes of one call wherever the buffer hands them on, and are put in
\* the file at the call (they are all there once Close has flushed).
HeaderUnit(zf) == [k |-> "header", name |-> zf.name]
DataUnitEmpty(zf) == [k |-> "data", bytes |-> <<>>]
DataUnit(zf) == [k |-> "data", bytes |-> zf.contents]
DirectoryUnit == [k |-> "directory"]

\* a.errorsMutex.Lock(); defer a.errorsMutex.Unlock(); the range expression
\* a.zipFiles is evaluated once, here.
WriteFilesLock ==
    /\ pc[Main] = "writeFiles"
    /\ IF a = "nil"
       THEN /\ pc' = Panic
            /\ UNCHANGED << errorsMutex, wfFiles, wfIdx >>
       ELSE /\ MutexFree(errorsMutex)
            /\ errorsMutex' = errorsMutex \cup {Main}
            /\ wfFiles' = zipFiles
            /\ wfIdx' = 1
            /\ pc' = [pc EXCEPT ![Main] =
                        IF Len(zipFiles) = 0 THEN "writeFilesReturn" ELSE "writeFileCreate"]
    /\ UNCHANGED << a, zipFilesMutex, errors, zipFiles, local, disk, woff,
                    fileOpen, zipClosed, ret, logged, aeErrors, storeCalls >>
    /\ NotMain

\* writeFiles returns err: deferred Unlock, main logs it and goes to close.
WriteFilesFailGoesOn(msg) ==
    /\ ret' = [ret EXCEPT !["writeFiles"] = msg]
    /\ logged' = Append(logged, msg)
    /\ pc' = [pc EXCEPT ![Main] = "writeFileCreate"]
    /\ UNCHANGED errorsMutex
WriteFilesFail(msg) ==
    /\ errorsMutex' = errorsMutex \ {Main}
    /\ ret' = [ret EXCEPT !["writeFiles"] = msg]
    /\ logged' = Append(logged, msg)
    /\ pc' = [pc EXCEPT ![Main] = "close"]

\* f, err := a.zipWriter.Create(zf.name)
WriteFileCreate ==
    /\ pc[Main] = "writeFileCreate"
    /\ \E ok \in BOOLEAN :
        IF ok
        THEN /\ disk' = WriteAt(disk, woff, <<HeaderUnit(wfFiles[wfIdx])>>)
             /\ woff' = woff + 1
             /\ pc' = [pc EXCEPT ![Main] = "writeFileWrite"]
             /\ UNCHANGED << errorsMutex, ret, logged >>
        ELSE /\ WriteFilesFail("error creating " \o wfFiles[wfIdx].name \o " in zip file")
             /\ UNCHANGED << disk, woff >>
    /\ UNCHANGED << a, zipFilesMutex, errors, zipFiles, local, fileOpen,
                    zipClosed, wfIdx, aeErrors, wfFiles, storeCalls >>
    /\ NotMain

\* _, err = f.Write(zf.contents), then the next iteration of the range.
WriteFileWrite ==
    /\ pc[Main] = "writeFileWrite"
    /\ \E ok \in BOOLEAN :
        IF ok
        THEN /\ disk' = WriteAt(disk, woff, <<DataUnit(wfFiles[wfIdx])>>)
             /\ woff' = woff + 1
             /\ wfIdx' = wfIdx + 1
             /\ pc' = [pc EXCEPT ![Main] =
                        IF wfIdx = Len(wfFiles) THEN "writeFilesReturn" ELSE "writeFileCreate"]
             /\ UNCHANGED << errorsMutex, ret, logged >>
        ELSE /\ WriteFilesFail("error writing " \o wfFiles[wfIdx].name \o " to zip file")
             /\ UNCHANGED << disk, woff, wfIdx >>
    /\ UNCHANGED << a, zipFilesMutex, errors, zipFiles, local, fileOpen,
                    zipClosed, aeErrors, wfFiles, storeCalls >>
    /\ NotMain

\* return nil at the end of the range, running the deferred Unlock.
WriteFilesReturn ==
    /\ pc[Main] = "writeFilesReturn"
    /\ errorsMutex' = errorsMutex \ {Main}
    /\ ret' = [ret EXCEPT !["writeFiles"] = "nil"]
    /\ pc' = [pc EXCEPT ![Main] = "close"]
    /\ UNCHANGED << a, zipFilesMutex, errors, zipFiles, local, disk, woff,
                    fileOpen, zipClosed, wfIdx, logged, aeErrors, wfFiles,
                    storeCalls >>
    /\ NotMain

(***************************************************************************)
(* close (main.go:124-134), then main returns                              *)
(***************************************************************************)
\* err := a.zipWriter.Close(): writes the central directory; on failure
\* close returns at once and main logs the error.
CloseZipWriter ==
    /\ pc[Main] = "close"
    /\ IF a = "nil"
       THEN /\ pc' = Panic
            /\ UNCHANGED << disk, woff, zipClosed, ret, logged >>
       ELSE \E ok \in BOOLEAN :
                IF ok
                THEN /\ disk' = WriteAt(disk, woff, <<DirectoryUnit>>)
                     /\ woff' = woff + 1
                     /\ zipClosed' = TRUE
                     /\ pc' = [pc EXCEPT ![Main] = "closeFile"]
                     /\ UNCHANGED << ret, logged >>
                ELSE /\ ret' = [ret EXCEPT !["close"] = "error closing zip file writer"]
                     /\ logged' = Append(logged, "error closing zip file writer")
                     /\ pc' = [pc EXCEPT ![Main] = "done"]
                     /\ UNCHANGED << disk, woff, zipClosed >>
    /\ UNCHANGED << a, errorsMutex, zipFilesMutex, errors, zipFiles, local,
                    fileOpen, wfIdx, aeErrors, wfFiles, storeCalls >>
    /\ NotMain

\* err = a.zipFile.Close(): the descriptor is released whether or not the
\* call reports an error.
CloseZipFile ==
    /\ pc[Main] = "closeFile"
    /\ fileOpen' = FALSE
    /\ \E ok \in BOOLEAN :
        IF ok
        THEN /\ ret' = [ret EXCEPT !["close"] = "nil"]
             /\ UNCHANGED logged
        ELSE /\ ret' = [ret EXCEPT !["close"] = "error closing zip file"]
             /\ logged' = Append(logged, "error closing zip file")
    /\ pc' = [pc EXCEPT ![Main] = "done"]
    /\ UNCHANGED << a, errorsMutex, zipFilesMutex, errors, zipFiles, local,
                    disk, woff, zipClosed, wfIdx, aeErrors, wfFiles, storeCalls >>
    /\ NotMain

(***************************************************************************)
(* The program                                                             *)
(***************************************************************************)
Next ==
    \/ NewAnalyzer
    \/ Launch
    \/ Wait
    \/ \E g \in Workers : RunCommand(g)
    \/ \E g \in Workers : RunAddIP(g)
    \/ \E g \in Workers : RunAddResolvConf(g)
    \/ \E p \in Procs : StoreErrorLock(p)
    \/ \E p \in Procs : StoreErrorAppend(p)
    \/ \E p \in Procs : StoreErrorUnlock(p)
    \/ \E p \in Procs : StoreFileLock(p)
    \/ \E p \in Procs : StoreFileAppend(p)
    \/ \E p \in Procs : StoreFileUnlock(p)
    \/ \E g \in Workers : WgDone(g)
    \/ AddErrorsLock
    \/ AddErrorsBody
    \/ AddErrorsReturn
    \/ WriteFilesLock
    \/ WriteFileCreate
    \/ WriteFileWrite
    \/ WriteFilesReturn
    \/ CloseZipWriter
    \/ CloseZipFile

Spec == Init /\ [][Next]_vars

\* Scheduling.  The Go scheduler runs every runnable goroutine, and main's
\* own file operations return; a probe's external operation (a child
\* process, an HTTP exchange, a file read) has no timeout and may never
\* return, so the Run actions carry no fairness.
MainSteps ==
    \/ NewAnalyzer
    \/ Launch
    \/ Wait
    \/ AddErrorsLock
    \/ AddErrorsBody
    \/ StoreFileLock(Main)
    \/ StoreFileAppend(Main)
    \/ StoreFileUnlock(Main)
    \/ AddErrorsReturn
    \/ WriteFilesLock
    \/ WriteFileCreate
    \/ WriteFileWrite
    \/ WriteFilesReturn
    \/ CloseZipWriter
    \/ CloseZipFile

WorkerSteps(g) ==
    \/ StoreErrorLock(g)
    \/ StoreErrorAppend(g)
    \/ StoreErrorUnlock(g)
    \/ StoreFileLock(g)
    \/ StoreFileAppend(g)
    \/ StoreFileUnlock(g)
    \/ WgDone(g)

FairSpec ==
    /\ Init
    /\ [][Next]_vars
    /\ WF_vars(MainSteps)
    /\ \A g \in Workers : WF_vars(WorkerSteps(g))

(***************************************************************************)
(* Vocabulary of the properties                                            *)
(***************************************************************************)
\* Goroutine g's task has returned.
Returned(g) == pc[g] \in {"wgDone", "done"}

\* Goroutine g has returned altogether (its wg.Done() included).
Finished(g) == pc[g] = "done"

\* main is past wg.Wait().
PastBarrier == pc[Main] \notin {"newAnalyzer", "launch", "wait", "panic"}

\* main is in writeFiles or later.
WriteFilesStarted ==
    pc[Main] \in {"writeFileCreate", "writeFileWrite", "writeFilesReturn",
                  "close", "closeFile", "done"}

\* Process p is inside a storeFile or storeError call.
InStoreCall(p) ==
    pc[p] \in {"storeError", "storeErrorAppend", "storeErrorUnlock",
               "storeFile", "storeFileAppend", "storeFileUnlock"}

\* Number of elements of seq equal to v.
CountEq(seq, v) == Cardinality({i \in DOMAIN seq : seq[i] = v})

\* Number of records of files stored under name.
CountNamed(files, name) == Cardinality({i \in DOMAIN files : files[i].name = name})

\* Number of errors of errs carrying one of the messages msgs.
CountMsg(errs, msgs) == Cardinality({i \in DOMAIN errs : errs[i].msg \in msgs})

\* Number of calls of fn that were given arg.
CountCalls(fn, arg) ==
    Cardinality({c \in storeCalls : c.fn = fn /\ c.arg = arg})

\* The archive as written so far: what the run has put in the file.
Archive == SubSeq(disk, 1, woff)

\* What a reader gets from a unit stream: one entry per header, holding the
\* data that follows it.
ReadEntries(stream) ==
    LET f[i \in 0..Len(stream)] ==
            IF i = 0 THEN <<>>
            ELSE LET u == stream[i]
                     prev == f[i - 1]
                 IN  IF u.k = "header"
                     THEN Append(prev, [name |-> u.name, contents |-> <<>>])
                     ELSE IF u.k = "data" /\ Len(prev) > 0
                     THEN [prev EXCEPT ![Len(prev)].contents = @ \o u.bytes]
                     ELSE prev
    IN  f[Len(stream)]

(***************************************************************************)
(* C1  Barrier.  Once main is past wg.Wait() -- in addErrors or anywhere   *)
(* later -- every probe goroutine has returned, whatever the order they    *)
(* finished in; and once main is in writeFiles or later, addErrors has     *)
(* returned.                                                               *)
(***************************************************************************)
C1_Barrier ==
    /\ PastBarrier => \A g \in Workers : Finished(g)
    /\ WriteFilesStarted => ret["addErrors"] # NotCalled

\* Main has just entered writeFiles after probes that did not finish in
\* launch order (the last one launched stored its file first).
C1_Witness ==
    /\ pc[Main] = "writeFileCreate"
    /\ \A g \in Workers : Finished(g)
    /\ ret["addErrors"] = "nil"
    /\ zipFiles[1].name = "resolv.conf"

(***************************************************************************)
(* C2  Every task is invoked exactly once, each by its own goroutine: no   *)
(* task is ever invoked twice, no two goroutines get the same task, and    *)
(* when main is past the barrier each task has been invoked once and has   *)
(* returned once.                                                          *)
(***************************************************************************)
C2_EachTaskOnce ==
    /\ \A j \in Workers : calls[j] <= 1 /\ rets[j] <= calls[j]
    /\ \A g, h \in Workers :
            (g # h /\ pc[g] # "unborn" /\ pc[h] # "unborn" /\ ~Panicked)
                => gtask[g] # gtask[h]
    /\ PastBarrier => \A j \in Workers : calls[j] = 1 /\ rets[j] = 1

C2_Witness ==
    /\ pc[Main] = "addErrors"
    /\ \A j \in Workers : calls[j] = 1 /\ rets[j] = 1

(***************************************************************************)
(* C3  No lost or corrupted appends.  Whenever no storeFile or storeError  *)
(* call is in progress, zipFiles holds exactly the records the storeFile   *)
(* calls were given and errors exactly the errors the storeError calls     *)
(* were given, each as many times as it was stored.                        *)
(***************************************************************************)
C3_NoLostAppend ==
    (\A p \in Procs : ~InStoreCall(p)) =>
        /\ Len(zipFiles) = Cardinality({c \in storeCalls : c.fn = "storeFile"})
        /\ Len(errors) = Cardinality({c \in storeCalls : c.fn = "storeError"})
        /\ \A c \in storeCalls :
            /\ c.fn = "storeFile" =>
                CountEq(zipFiles, c.arg) = CountCalls("storeFile", c.arg)
            /\ c.fn = "storeError" =>
                CountEq(errors, c.arg) = CountCalls("storeError", c.arg)

\* All three probes have stored, two files and two errors among them, in an
\* order other than launch order.
C3_Witness ==
    /\ \A g \in Workers : Finished(g)
    /\ pc[Main] = "wait"
    /\ Len(zipFiles) >= 2
    /\ Len(errors) >= 2
    /\ zipFiles[1].name = "resolv.conf"

(***************************************************************************)
(* C4  A command probe that has returned has appended exactly one Output   *)
(* Record under its name, holding the bytes CombinedOutput captured,       *)
(* whatever the outcome; it has appended exactly one Error Record if the   *)
(* execution failed and none if it succeeded.                              *)
(***************************************************************************)
C4_CommandProbe ==
    \A g \in Workers :
        (Returned(g) /\ tasks[gtask[g]].kind = "command") =>
            LET f == tasks[gtask[g]].f
                r == local[g].res
                msg == "error getting data for " \o f
            IN  /\ CountNamed(zipFiles, f) = 1
                /\ CountEq(zipFiles, [name |-> f, contents |-> r.output]) = 1
                /\ Cardinality({c \in storeCalls : c.proc = g /\ c.fn = "storeFile"}) = 1
                /\ CountMsg(errors, {msg}) = IF r.err = "nil" THEN 0 ELSE 1
                /\ r.err # "nil" => CountEq(errors, [msg |-> msg, cause |-> r.err]) = 1
                /\ Cardinality({c \in storeCalls : c.proc = g /\ c.fn = "storeError"})
                        = IF r.err = "nil" THEN 0 ELSE 1

\* A command probe that failed after printing something has returned.
C4_Witness ==
    \E g \in Workers :
        /\ Returned(g)
        /\ tasks[gtask[g]].kind = "command"
        /\ local[g].res.err = "exit status 1"
        /\ local[g].res.output # <<>>

(***************************************************************************)
(* C5  An addIP probe that has returned has appended exactly one Output    *)
(* Record (ip-address.txt, the body read) and no Error Record if both the  *)
(* GET and the body read succeeded; if either failed it has appended       *)
(* exactly one Error Record, wrapping that failure, and no Output Record.  *)
(***************************************************************************)
IPMsgs == {"error getting IP address", "error reading IP address body"}

C5_FetchProbe ==
    \A g \in Workers :
        (Returned(g) /\ tasks[gtask[g]].kind = "addIP") =>
            LET r == local[g].res
                calledFile == {c \in storeCalls : c.proc = g /\ c.fn = "storeFile"}
                calledErr  == {c \in storeCalls : c.proc = g /\ c.fn = "storeError"}
            IN  IF r.getErr = "nil" /\ r.readErr = "nil"
                THEN /\ CountNamed(zipFiles, "ip-address.txt") = 1
                     /\ CountEq(zipFiles, [name |-> "ip-address.txt", contents |-> r.body]) = 1
                     /\ Cardinality(calledFile) = 1
                     /\ CountMsg(errors, IPMsgs) = 0
                     /\ calledErr = {}
                ELSE /\ CountNamed(zipFiles, "ip-address.txt") = 0
                     /\ calledFile = {}
                     /\ CountMsg(errors, IPMsgs) = 1
                     /\ Cardinality(calledErr) = 1
                     /\ CountEq(errors,
                            IF r.getErr # "nil"
                            THEN [msg |-> "error getting IP address", cause |-> r.getErr]
                            ELSE [msg |-> "error reading IP address body", cause |-> r.readErr]) = 1

\* An addIP probe whose GET succeeded and whose body read failed has returned.
C5_Witness ==
    \E g \in Workers :
        /\ Returned(g)
        /\ tasks[gtask[g]].kind = "addIP"
        /\ local[g].res.getErr = "nil"
        /\ local[g].res.readErr # "nil"
        /\ Len(errors) >= 1

(***************************************************************************)
(* C6  An addResolvConf probe that has returned has appended exactly one   *)
(* Output Record (resolv.conf, the full contents read) and no Error Record *)
(* if the read succeeded; if the read failed it has appended exactly one   *)
(* Error Record and no Output Record.                                      *)
(***************************************************************************)
C6_ReadProbe ==
    \A g \in Workers :
        (Returned(g) /\ tasks[gtask[g]].kind = "addResolvConf") =>
            LET r == local[g].res
                calledFile == {c \in storeCalls : c.proc = g /\ c.fn = "storeFile"}
                calledErr  == {c \in storeCalls : c.proc = g /\ c.fn = "storeError"}
            IN  IF r.err = "nil"
                THEN /\ CountNamed(zipFiles, "resolv.conf") = 1
                     /\ CountEq(zipFiles, [name |-> "resolv.conf", contents |-> r.contents]) = 1
                     /\ Cardinality(calledFile) = 1
                     /\ CountMsg(errors, {"error reading resolv.conf"}) = 0
                     /\ calledErr = {}
                ELSE /\ CountNamed(zipFiles, "resolv.conf") = 0
                     /\ calledFile = {}
                     /\ CountMsg(errors, {"error reading resolv.conf"}) = 1
                     /\ CountEq(errors, [msg |-> "error reading resolv.conf", cause |-> r.err]) = 1
                     /\ Cardinality(calledErr) = 1

\* An addResolvConf probe whose read failed has returned.
C6_Witness ==
    \E g \in Workers :
        /\ Returned(g)
        /\ tasks[gtask[g]].kind = "addResolvConf"
        /\ local[g].res.err # "nil"
        /\ Len(errors) >= 1

(***************************************************************************)
(* C7  If the errors sequence is empty after the barrier, addErrors is a   *)
(* no-op: main makes no storeFile call, zipFiles stays as addErrors found  *)
(* it, holds no errors.txt record, and the archive gets no errors.txt      *)
(* entry.                                                                  *)
(***************************************************************************)
C7_NoErrorsNoReport ==
    (PastBarrier /\ errors = <<>>) =>
        /\ {c \in storeCalls : c.proc = Main} = {}
        /\ CountNamed(zipFiles, "errors.txt") = 0
        /\ CountNamed(ReadEntries(Archive), "errors.txt") = 0
        /\ ret["addErrors"] # NotCalled => zipFiles = aeErrors[2]

\* A run without errors has written and closed its archive: one entry per
\* probe.
C7_Witness ==
    /\ pc[Main] = "done"
    /\ errors = <<>>
    /\ ret["writeFiles"] = "nil"
    /\ zipClosed
    /\ Len(ReadEntries(Archive)) = NumTasks

(***************************************************************************)
(* C8  If at least one error was stored, addErrors appends exactly one     *)
(* record, named errors.txt, after the records it found; its contents are  *)
(* one block per stored error, in the order of the errors sequence, each   *)
(* block being the error's cause and message (and stack) followed by the   *)
(* delimiter; and the sequence writeFiles iterates over holds that record  *)
(* exactly once.                                                           *)
(***************************************************************************)
C8_ErrorReport ==
    (ret["addErrors"] # NotCalled /\ aeErrors[1] # <<>>) =>
        LET n == Len(aeErrors[1])
            report == zipFiles[Len(zipFiles)]
        IN  /\ Len(zipFiles) = Len(aeErrors[2]) + 1
            /\ SubSeq(zipFiles, 1, Len(zipFiles) - 1) = aeErrors[2]
            /\ report.name = "errors.txt"
            /\ CountNamed(zipFiles, "errors.txt") = 1
            /\ Len(report.contents) = 4 * n
            /\ \A j \in 1..n :
                /\ report.contents[4 * j - 3] = aeErrors[1][j].cause
                /\ report.contents[4 * j - 2] = aeErrors[1][j].msg
                /\ report.contents[4 * j] = Delim
            /\ WriteFilesStarted =>
                (wfFiles = zipFiles /\ CountNamed(wfFiles, "errors.txt") = 1)

\* addErrors has compiled two or more errors and writeFiles is under way.
C8_Witness ==
    /\ ret["addErrors"] = "nil"
    /\ Len(aeErrors[1]) >= 2
    /\ pc[Main] = "writeFileWrite"

(***************************************************************************)
(* C9  Round trip of writeFiles.  When writeFiles has returned nil, what   *)
(* the run wrote to the archive reads back as exactly the records of       *)
(* zipFiles: as many entries as records, the i-th entry having the i-th    *)
(* record's name and contents.  (The archive is what the zip writer wrote, *)
(* from offset 0 on; what an earlier file leaves after it is C10's matter.)*)
(***************************************************************************)
C9_RoundTrip ==
    ret["writeFiles"] = "nil" =>
        LET entries == ReadEntries(Archive)
        IN  /\ wfFiles = zipFiles
            /\ Len(entries) = Len(zipFiles)
            /\ \A i \in 1..Len(zipFiles) :
                /\ entries[i].name = zipFiles[i].name
                /\ entries[i].contents = zipFiles[i].contents

\* A run with an errors.txt and at least two probe outputs has written and
\* closed its archive.
C9_Witness ==
    /\ pc[Main] = "done"
    /\ ret["writeFiles"] = "nil"
    /\ zipClosed
    /\ Len(zipFiles) >= 3
    /\ CountNamed(zipFiles, "errors.txt") = 1

(***************************************************************************)
(* C10  The archive file is truncated when it already exists: after a      *)
(* complete run (the file was opened, writeFiles and close returned nil)   *)
(* the file holds exactly the archive the run wrote and nothing of the     *)
(* file that was there before.                                             *)
(***************************************************************************)
C10_Truncated ==
    (pc[Main] = "done" /\ a = "analyzer" /\ ret["writeFiles"] = "nil"
        /\ ret["close"] = "nil") =>
        /\ disk = Archive
        /\ \A i \in 1..Len(disk) : disk[i].k # "old"

(***************************************************************************)
(* C11  writeFiles fails fast.  When creating or writing the entry of the  *)
(* k-th record failed, writeFiles has returned that error, wrapped with    *)
(* the record's name, and main has logged it; no create or write was made  *)
(* for a later record, and the entries of the records before the k-th are  *)
(* in the archive as they were written (a failed write leaves the k-th     *)
(* entry with its header only).                                            *)
(***************************************************************************)
C11_FailFast ==
    ret["writeFiles"] \notin {NotCalled, "nil"} =>
        LET k == wfIdx
            zf == wfFiles[k]
            before == SubSeq(wfFiles, 1, k - 1)
            entries == ReadEntries(Archive)
        IN  /\ pc[Main] \in {"close", "closeFile", "done"}
            /\ Main \notin errorsMutex
            /\ \E i \in DOMAIN logged : logged[i] = ret["writeFiles"]
            /\ \/ /\ ret["writeFiles"] = "error creating " \o zf.name \o " in zip file"
                  /\ entries = before
               \/ /\ ret["writeFiles"] = "error writing " \o zf.name \o " to zip file"
                  /\ entries = Append(before, [name |-> zf.name, contents |-> <<>>])

\* The write of the second of three or more records failed, and the run
\* went on to its end.
C11_Witness ==
    /\ pc[Main] = "done"
    /\ wfIdx = 2
    /\ Len(wfFiles) >= 3
    /\ ret["writeFiles"] = "error writing " \o wfFiles[2].name \o " to zip file"

(***************************************************************************)
(* C12  Fail-soft collection.  Whatever subset of the probes failed, when  *)
(* writeFiles starts every probe has run to its end, zipFiles holds one    *)
(* record per command probe, one per addIP / addResolvConf probe that      *)
(* succeeded and none for one that failed, plus one errors.txt exactly if  *)
(* some probe failed, and nothing else; errors holds one record per failed *)
(* probe.                                                                  *)
(***************************************************************************)
\* The external operation of goroutine g's probe failed.
Failed(g) ==
    LET r == local[g].res
    IN  CASE tasks[gtask[g]].kind = "command" -> r.err # "nil"
          [] tasks[gtask[g]].kind = "addIP" -> r.getErr # "nil" \/ r.readErr # "nil"
          [] OTHER -> r.err # "nil"

C12_FailSoft ==
    (pc[Main] \in {"writeFiles"} \/ WriteFilesStarted) =>
        LET failed == {g \in Workers : Failed(g)}
            stores == {g \in Workers : tasks[gtask[g]].kind = "command" \/ ~Failed(g)}
        IN  /\ \A g \in Workers : Finished(g) /\ calls[gtask[g]] = 1
            /\ \A g \in Workers :
                CountNamed(zipFiles, tasks[gtask[g]].f) = IF g \in stores THEN 1 ELSE 0
            /\ CountNamed(zipFiles, "errors.txt") = IF failed = {} THEN 0 ELSE 1
            /\ Len(zipFiles) = Cardinality(stores) + IF failed = {} THEN 0 ELSE 1
            /\ Len(errors) = Cardinality(failed)
            /\ \A g \in failed : CountEq(errors, local[g].err) = 1

\* writeFiles starts after a run in which the command probe and
\* addResolvConf failed and addIP succeeded.
C12_Witness ==
    /\ pc[Main] = "writeFileCreate"
    /\ {g \in Workers : Failed(g)} =
            {g \in Workers : tasks[gtask[g]].kind \in {"command", "addResolvConf"}}

(***************************************************************************)
(* C13  A command probe whose execution failed (non-zero exit, or the      *)
(* program could not be started) and that has returned has stored exactly  *)
(* one Output Record and exactly one Error Record.  C13_NonEmptyOutput     *)
(* adds that the record's bytes are never empty; C13_FailedCommand says    *)
(* instead that the record holds the captured bytes, which are empty when  *)
(* the command printed nothing or did not start.                           *)
(***************************************************************************)
FailedCommands ==
    {g \in Workers : /\ Returned(g)
                     /\ tasks[gtask[g]].kind = "command"
                     /\ local[g].res.err # "nil"}

C13_NonEmptyOutput ==
    \A g \in FailedCommands :
        LET f == tasks[gtask[g]].f
        IN  /\ CountNamed(zipFiles, f) = 1
            /\ \A i \in DOMAIN zipFiles :
                    zipFiles[i].name = f => zipFiles[i].contents # <<>>
            /\ CountMsg(errors, {"error getting data for " \o f}) = 1

C13_FailedCommand ==
    \A g \in FailedCommands :
        LET f == tasks[gtask[g]].f
        IN  /\ CountNamed(zipFiles, f) = 1
            /\ \A i \in DOMAIN zipFiles :
                    zipFiles[i].name = f => zipFiles[i].contents = local[g].res.output
            /\ CountMsg(errors, {"error getting data for " \o f}) = 1

\* A command that could not be started: its probe has returned, and stored
\* an empty record and an error.
C13_Witness ==
    \E g \in FailedCommands :
        /\ local[g].res.output = <<>>
        /\ CountEq(zipFiles, [name |-> tasks[gtask[g]].f, contents |-> <<>>]) = 1
        /\ Len(errors) >= 1

(***************************************************************************)
(* C14  The store is frozen during archiving.  No step taken once main has *)
(* reached writeFiles changes zipFiles, and the only step past the barrier *)
(* that changes it is addErrors' storeFile appending errors.txt.           *)
(***************************************************************************)
C14_StoreFrozen ==
    [][ /\ (pc[Main] = "writeFiles" \/ WriteFilesStarted) => zipFiles' = zipFiles
        /\ (PastBarrier /\ zipFiles' # zipFiles) =>
                /\ pc[Main] = "storeFileAppend"
                /\ Len(zipFiles') = Len(zipFiles) + 1
                /\ SubSeq(zipFiles', 1, Len(zipFiles)) = zipFiles
                /\ zipFiles'[Len(zipFiles')].name = "errors.txt"
      ]_vars

\* A run that appended errors.txt has archived and ended, the store being
\* what writeFiles found.
C14_Witness ==
    /\ pc[Main] = "done"
    /\ ret["writeFiles"] = "nil"
    /\ Len(zipFiles) >= 2
    /\ zipFiles[Len(zipFiles)].name = "errors.txt"
    /\ wfFiles = zipFiles

(***************************************************************************)
(* C15  Finalize, then close.  close() runs only after writeFiles has      *)
(* returned; the zip writer is finalized before the file is closed; and    *)
(* once close() has returned the file is closed, whether or not finalizing *)
(* the zip writer reported an error.                                       *)
(***************************************************************************)
C15_FinalizeThenClose ==
    /\ (pc[Main] \in {"close", "closeFile"} \/ ret["close"] # NotCalled)
            => ret["writeFiles"] # NotCalled
    /\ pc[Main] = "closeFile" => (zipClosed /\ fileOpen)
    /\ (a = "analyzer" /\ ~fileOpen) => zipClosed
    /\ ret["close"] # NotCalled => ~fileOpen

(***************************************************************************)
(* C16  addErrors leaves the errors sequence as it found it: from its      *)
(* first step on, and after it has returned, errors has the same elements  *)
(* in the same order; and all it does to zipFiles is at most one append.   *)
(***************************************************************************)
C16_ErrorsUnchanged ==
    (\/ pc[Main] \in {"addErrorsBody", "storeFile", "storeFileAppend",
                      "storeFileUnlock", "addErrorsReturn"}
     \/ ret["addErrors"] # NotCalled) =>
        /\ errors = aeErrors[1]
        /\ Len(zipFiles) \in {Len(aeErrors[2]), Len(aeErrors[2]) + 1}
        /\ SubSeq(zipFiles, 1, Len(aeErrors[2])) = aeErrors[2]

\* addErrors has returned after compiling two or more errors into
\* errors.txt.
C16_Witness ==
    /\ pc[Main] = "writeFiles"
    /\ ret["addErrors"] = "nil"
    /\ Len(errors) >= 2
    /\ Len(zipFiles) = Len(aeErrors[2]) + 1

(***************************************************************************)
(* C17  Termination and hang.  Under fair scheduling, once every probe has *)
(* returned main goes on to pass the barrier, run addErrors, writeFiles    *)
(* and close, and end.  If some probe never returns, main never passes     *)
(* wg.Wait(): addErrors, writeFiles and close are never run, however many  *)
(* of the other probes completed.                                          *)
(***************************************************************************)
AllReturned == \A g \in Workers : Returned(g)

MainEnded ==
    /\ pc[Main] = "done"
    /\ \A fn \in {"addErrors", "writeFiles", "close"} : ret[fn] # NotCalled

NothingRunPastBarrier ==
    /\ ~PastBarrier
    /\ \A fn \in {"addErrors", "writeFiles", "close"} : ret[fn] = NotCalled

\* The second conjunct is the hang read state by state: as long as some
\* probe has not returned nothing past the barrier has run, so a probe that
\* never returns keeps main in front of the barrier for ever.
C17_TerminationAndHang ==
    /\ AllReturned ~> MainEnded
    /\ [](~AllReturned => NothingRunPastBarrier)

\* One probe has not come back from its external operation; all the others
\* have finished, and main sits in wg.Wait().
C17_Witness ==
    /\ pc[Main] = "wait"
    /\ wg = 1
    /\ \E g \in Workers :
        /\ pc[g] = "task"
        /\ \A h \in Workers \ {g} : Finished(h)

(***************************************************************************)
(* C18  Lock discipline.  Every access to zipFiles -- the append in        *)
(* storeFile, the iteration in writeFiles -- is made holding               *)
(* zipFilesMutex, and every access to errors -- the append in storeError,  *)
(* the iteration in addErrors -- is made holding errorsMutex.              *)
(***************************************************************************)
C18_LockDiscipline ==
    /\ \A p \in Procs : pc[p] = "storeFileAppend" => p \in zipFilesMutex
    /\ \A p \in Procs : pc[p] = "storeErrorAppend" => p \in errorsMutex
    /\ pc[Main] = "addErrorsBody" => Main \in errorsMutex
    /\ pc[Main] \in {"writeFileCreate", "writeFileWrite"} => Main \in zipFilesMutex

(***************************************************************************)
(* C19  A failure to open the archive is handled without a crash: main     *)
(* logs the error, the process does not die of a nil dereference, and      *)
(* nothing that runs after newAnalyzer runs on a nil analyzer.             *)
(***************************************************************************)
C19_OpenFailureHandled ==
    /\ ~Panicked
    /\ (a = "nil" /\ pc[Main] # "newAnalyzer") =>
            /\ logged # <<>>
            /\ \A p \in Procs : pc[p] \notin
                    {"storeErrorAppend", "storeFileAppend", "addErrorsBody",
                     "writeFileCreate", "writeFileWrite", "closeFile"}

(***************************************************************************)
(* C20  The two locks never deadlock.  As long as main has not ended (or   *)
(* the process died) some step can be taken; each mutex has at most one    *)
(* holder, and a holder is inside the critical section it took the mutex   *)
(* for; only main, in addErrors, ever holds both, errorsMutex being the    *)
(* one it took first; nobody holding zipFilesMutex is waiting for          *)
(* errorsMutex; and a process that has finished holds neither.             *)
(***************************************************************************)
C20_NoDeadlock ==
    /\ pc[Main] \notin {"done", "panic"} => ENABLED Next
    /\ Cardinality(errorsMutex) <= 1
    /\ Cardinality(zipFilesMutex) <= 1
    /\ \A p \in zipFilesMutex : pc[p] \in {"storeFileAppend", "storeFileUnlock"}
    /\ \A p \in errorsMutex :
        \/ pc[p] \in {"storeErrorAppend", "storeErrorUnlock"}
        \/ /\ p = Main
           /\ pc[p] \in {"addErrorsBody", "storeFile", "storeFileAppend",
                         "storeFileUnlock", "addErrorsReturn", "writeFileCreate",
                         "writeFileWrite", "writeFilesReturn"}
    /\ \A p \in errorsMutex \cap zipFilesMutex : p = Main /\ ret["addErrors"] = NotCalled
    /\ \A p \in zipFilesMutex : pc[p] \notin {"storeError", "addErrors", "writeFiles"}
    /\ \A p \in Procs :
        pc[p] \in {"wgDone", "done"} => (p \notin errorsMutex /\ p \notin zipFilesMutex)

\* A probe waits for zipFilesMutex, which another probe holds, while a third
\* process holds errorsMutex.
C20_Witness ==
    \E p, q, r \in Procs :
        /\ pc[p] = "storeFile"
        /\ q \in zipFilesMutex
        /\ r \in errorsMutex
        /\ p # q /\ q # r /\ p # r

====
